---- MODULE Spec2Model ----
(***************************************************************************)
(* Model of the cover-letter generator: filename sanitization, job-info    *)
(* extraction, the batch orchestrator with its archival phase              *)
(* (src/cover_letter_generator.py) and the scraper's content extraction    *)
(* (src/job_scraper.py).                                                   *)
(*                                                                         *)
(* A Python str is a sequence of one-character strings.                    *)
(***************************************************************************)
EXTENDS Integers, Sequences, FiniteSets, TLC

VARIABLES
    \* ---- _sanitize_filename_component, applied twice --------------------
    s_pc,            \* "in" | "once" | "twice"
    s_text,          \* the argument
    s_once,          \* sanitize(s_text)
    s_twice,         \* sanitize(sanitize(s_text))
    \* ---- _extract_job_info ----------------------------------------------
    m_pc,            \* "in" | "out"
    m_reply,         \* what the backend answers to the metadata request
    m_info,          \* the call's outcome
    \* ---- batch_process ---------------------------------------------------
    pc,              \* "discover" | "read" | "meta" | "generate" | "write"
                     \*   | "archive" | "move" | "report" | "returned"
    listing,         \* the files of the input directory, in glob's order
    pattern,         \* the glob pattern
    move_to_bin,     \* the archival flag
    job_files,       \* glob's result
    i,               \* the loop index (1-based)
    new_filename,    \* the archive name of the current item, or NoName
    generated_files, \* output paths of the letters written
    files_to_move,   \* (source, new_filename) pairs queued for archival
    j,               \* index into files_to_move in the archival loop
    input,           \* file system: the files present in the input directory
    output,          \* file system: output path -> the posting its letter answers
    bin,             \* file system: archive name -> the posting stored there
    now,             \* the wall clock
    log,             \* what has been printed
    raised_at,       \* per visited item: the stage that raised, or "none"
    returned,        \* batch_process's return value
    \* ---- JobScraper.scrape_url -------------------------------------------
    c_pc,            \* "fetch" | "done"
    page,            \* the document the URL serves
    result,          \* scrape_url's return value
    \* ---- _extract_cv_text, applied twice ---------------------------------
    v_pc,            \* "in" | "once" | "twice"
    cv_content,      \* the CV as loaded
    v_once,          \* the cleaned CV
    v_twice,         \* the cleaned CV, cleaned again
    \* ---- main and CoverLetterGenerator.__init__ --------------------------
    g_pc,            \* "start" | "constructed" | "selected" | "done" | "failed"
    environ,         \* the process environment after load_dotenv()
    cli,             \* what the command line gives
    ollama_host,     \* self.ollama_host
    default_model,   \* self.default_model
    selected_model,  \* main's selected_model
    used_model       \* the model the generation request names

sanVars  == <<s_pc, s_text, s_once, s_twice>>
metaVars == <<m_pc, m_reply, m_info>>
batchVars == <<pc, listing, pattern, move_to_bin, job_files, i, new_filename,
               generated_files, files_to_move, j, input, output, bin, now, log,
               raised_at, returned>>
scrapeVars == <<c_pc, page, result>>
cvVars == <<v_pc, cv_content, v_once, v_twice>>
cfgVars == <<g_pc, environ, cli, ollama_host, default_model, selected_model,
             used_model>>
vars == <<sanVars, metaVars, batchVars, scrapeVars, cvVars, cfgVars>>

(***************************************************************************)
(* Bounds                                                                  *)
(***************************************************************************)
MaxLen == 4          \* longest enumerated argument of the sanitizer
MaxFiles == 3        \* most files in the input directory
MaxClock == 2        \* last instant of the wall clock
DayLen == 2          \* instants per calendar day
MaxElems == 3        \* most elements of a scraped page
MaxCvLines == 2      \* most lines of a CV

(***************************************************************************)
(* Strings                                                                 *)
(***************************************************************************)
Chars    == {"A", "a", "1", " ", "-", "!"}
Unknown  == <<"U", "n", "k", "n", "o", "w", "n">>
unknown  == <<"u", "n", "k", "n", "o", "w", "n">>
UNKNOWN  == <<"U", "N", "K", "N", "O", "W", "N">>

\* str.lower() on one character
lower(c) ==
    CASE c = "A" -> "a"
      [] c = "U" -> "u"
      [] c = "N" -> "n"
      [] c = "K" -> "k"
      [] c = "O" -> "o"
      [] c = "W" -> "w"
      [] OTHER   -> c

\* str.isalnum() on one character
isalnum(c) == c \in {"A", "a", "1", "U", "N", "K", "O", "W", "u", "n", "k", "o", "w"}

\* text.lower().replace(' ', '-')
SpaceToHyphen(c) == IF c = " " THEN "-" ELSE c
LowerHyphenate(s) == [x \in 1..Len(s) |-> SpaceToHyphen(lower(s[x]))]

\* the safe_chars loop
IsSafe(c) == isalnum(c) \/ c = "-"
KeepSafe(s) == SelectSeq(s, IsSafe)

\* '--' in filename
HasDoubleHyphen(s) == \E x \in 1..(Len(s) - 1) : s[x] = "-" /\ s[x + 1] = "-"

\* filename.replace('--', '-'): one left-to-right pass over non-overlapping matches
RECURSIVE ReplaceDoubleHyphen(_)
ReplaceDoubleHyphen(s) ==
    IF Len(s) < 2 THEN s
    ELSE IF s[1] = "-" /\ s[2] = "-"
         THEN <<"-">> \o ReplaceDoubleHyphen(SubSeq(s, 3, Len(s)))
         ELSE <<s[1]>> \o ReplaceDoubleHyphen(Tail(s))

\* while '--' in filename: filename = filename.replace('--', '-')
RECURSIVE CollapseHyphens(_)
CollapseHyphens(s) ==
    IF HasDoubleHyphen(s) THEN CollapseHyphens(ReplaceDoubleHyphen(s)) ELSE s

\* filename.strip('-')
RECURSIVE LStripHyphen(_)
LStripHyphen(s) ==
    IF s # <<>> /\ s[1] = "-" THEN LStripHyphen(Tail(s)) ELSE s
RECURSIVE RStripHyphen(_)
RStripHyphen(s) ==
    IF s # <<>> /\ s[Len(s)] = "-" THEN RStripHyphen(SubSeq(s, 1, Len(s) - 1)) ELSE s
\* mutant: the hyphens at the ends are kept
KeepEndHyphens(s) == s

StripHyphens(s) == RStripHyphen(LStripHyphen(s))

(***************************************************************************)
(* Python values that can reach the sanitizer: what json.loads can put     *)
(* under a key, and the 'Unknown' default.                                 *)
(***************************************************************************)
JStr(s)  == [k |-> "str",  s |-> s,    n |-> 0]
JNum(n)  == [k |-> "num",  s |-> <<>>, n |-> n]
JList(n) == [k |-> "list", s |-> <<>>, n |-> n]     \* a list of n items
JNull    == [k |-> "null", s |-> <<>>, n |-> 0]
Missing  == [k |-> "missing", s |-> <<>>, n |-> 0]  \* the key is absent

\* Python truthiness
Truthy(v) ==
    CASE v.k = "str"  -> v.s # <<>>
      [] v.k = "num"  -> v.n # 0
      [] v.k = "list" -> v.n # 0
      [] OTHER        -> FALSE

Returned(s) == [raised |-> FALSE, value |-> s]
Raised      == [raised |-> TRUE,  value |-> <<>>]

\* mutant: the empty result is returned as it is
OrEmpty(filename) == filename

\* return filename if filename else 'Unknown'
OrUnknown(filename) == IF filename # <<>> THEN filename ELSE Unknown

\* CoverLetterGenerator._sanitize_filename_component
SanitizeFilenameComponent(text) ==
    IF ~Truthy(text) \/ text = JStr(Unknown)
    THEN Returned(Unknown)
    ELSE IF text.k # "str"
         THEN Raised                   \* AttributeError: no .lower()
         ELSE Returned(OrUnknown(StripHyphens(CollapseHyphens(
                         KeepSafe(LowerHyphenate(text.s))))))

(***************************************************************************)
(* The sanitizer applied to a string, and again to its own result          *)
(***************************************************************************)
RECURSIVE StringsUpTo(_)
StringsUpTo(n) ==
    IF n = 0 THEN {<<>>}
    ELSE LET shorter == StringsUpTo(n - 1)
         IN  shorter \cup {Append(s, c) : s \in {t \in shorter : Len(t) = n - 1}, c \in Chars}

SanInputs == StringsUpTo(MaxLen) \cup {Unknown, unknown, UNKNOWN}

SanInit ==
    /\ s_pc = "in"
    /\ s_text \in SanInputs
    /\ s_once = Raised
    /\ s_twice = Raised

SanitizeOnce ==
    /\ s_pc = "in"
    /\ s_once' = SanitizeFilenameComponent(JStr(s_text))
    /\ s_pc' = "once"
    /\ UNCHANGED <<s_text, s_twice>>

SanitizeTwice ==
    /\ s_pc = "once"
    /\ ~s_once.raised
    /\ s_twice' = SanitizeFilenameComponent(JStr(s_once.value))
    /\ s_pc' = "twice"
    /\ UNCHANGED <<s_text, s_once>>

(***************************************************************************)
(* _extract_job_info                                                       *)
(*                                                                         *)
(* The backend's reply to the metadata request.  kind:                     *)
(*   "timeout" | "connerr"  requests.post raises                           *)
(*   "status"               raise_for_status raises                        *)
(*   "notjson"              response.json() raises                         *)
(*   "nokey"                the body has no 'response' key: ''             *)
(*   "text"                 the body's 'response' is the token list text   *)
(* A response text is a list of tokens: the fence ```, the word json,      *)
(* white space, other prose, or one JSON document.                         *)
(***************************************************************************)
NoDoc == [k |-> "none", company |-> Missing, position |-> Missing]
Obj(c, p) == [k |-> "obj", company |-> c, position |-> p]
NonObj(kind) == [k |-> kind, company |-> Missing, position |-> Missing]

Fence    == [t |-> "fence", doc |-> NoDoc]
JsonWord == [t |-> "json",  doc |-> NoDoc]
Ws       == [t |-> "ws",    doc |-> NoDoc]
Prose    == [t |-> "prose", doc |-> NoDoc]
Doc(d)   == [t |-> "doc",   doc |-> d]

FailReply(kind) == [kind |-> kind, text |-> <<>>]
TextReply(text) == [kind |-> "text", text |-> text]

\* str.strip()
RECURSIVE LStripWs(_)
LStripWs(s) == IF s # <<>> /\ s[1] = Ws THEN LStripWs(Tail(s)) ELSE s
RECURSIVE RStripWs(_)
RStripWs(s) ==
    IF s # <<>> /\ s[Len(s)] = Ws THEN RStripWs(SubSeq(s, 1, Len(s) - 1)) ELSE s
StripWs(s) == RStripWs(LStripWs(s))

\* response_text.replace('```json', '')
RECURSIVE RemoveFenceJson(_)
RemoveFenceJson(s) ==
    IF Len(s) < 2 THEN s
    ELSE IF s[1] = Fence /\ s[2] = JsonWord
         THEN RemoveFenceJson(SubSeq(s, 3, Len(s)))
         ELSE <<s[1]>> \o RemoveFenceJson(Tail(s))

\* .replace('```', '')
IsNotFence(tok) == tok # Fence
RemoveFence(s) == SelectSeq(s, IsNotFence)

\* the text handed to json.loads
Unfenced(text) == StripWs(RemoveFence(RemoveFenceJson(StripWs(text))))

\* json.loads: one document, white space around it allowed
IsNotWs(tok) == tok # Ws
JsonLoads(s) ==
    LET body == SelectSeq(s, IsNotWs)
    IN  IF Len(body) = 1 /\ body[1].t = "doc"
        THEN [ok |-> TRUE,  doc |-> body[1].doc]
        ELSE [ok |-> FALSE, doc |-> NoDoc]

\* mutant: info.get(key), with no default
GetOrNone(field) == IF field = Missing THEN JNull ELSE field

\* info.get(key, 'Unknown')
GetOrUnknown(field) == IF field = Missing THEN JStr(Unknown) ELSE field

UnknownInfo == [company |-> JStr(Unknown), position |-> JStr(Unknown)]

\* the dictionary built from the parsed document
InfoOf(doc) ==
    [company |-> GetOrUnknown(doc.company), position |-> GetOrUnknown(doc.position)]

\* CoverLetterGenerator._extract_job_info: the except clause catches every
\* failure of the request, of the parse and of .get on a non-dict
ExtractJobInfo(reply) ==
    IF reply.kind # "text"
    THEN UnknownInfo
    ELSE LET parsed == JsonLoads(Unfenced(reply.text))
         IN  IF ~parsed.ok \/ parsed.doc.k # "obj"
             THEN UnknownInfo
             ELSE InfoOf(parsed.doc)

FieldVals ==
    {Missing, JNull, JNum(0), JNum(5), JList(1), JStr(<<>>), JStr(Unknown),
     JStr(<<"A">>), JStr(<<"1">>), JStr(<<"a">>), JStr(<<"A", " ", "1">>), JStr(<<"!">>)}

Docs == {Obj(c, p) : c \in FieldVals, p \in FieldVals}
            \cup {NonObj("list"), NonObj("str"), NonObj("num"), NonObj("null")}

TextsOf(d) ==
    { <<Doc(d)>>,
      <<Ws, Doc(d), Ws>>,
      <<Fence, JsonWord, Ws, Doc(d), Ws, Fence>>,
      <<Fence, Ws, Doc(d), Ws, Fence>>,
      <<Prose, Ws, Doc(d)>>,
      <<JsonWord, Ws, Doc(d)>> }

MetaReplies ==
    {FailReply(kd) : kd \in {"timeout", "connerr", "status", "notjson", "nokey"}}
      \cup {TextReply(<<>>), TextReply(<<Prose>>), TextReply(<<Fence, JsonWord, Fence>>)}
      \cup UNION {{TextReply(tx) : tx \in TextsOf(d)} : d \in Docs}

MetaInit ==
    /\ m_pc = "in"
    /\ m_reply \in MetaReplies
    /\ m_info = UnknownInfo

ExtractInfo ==
    /\ m_pc = "in"
    /\ m_info' = ExtractJobInfo(m_reply)
    /\ m_pc' = "out"
    /\ UNCHANGED m_reply

(***************************************************************************)
(* batch_process                                                           *)
(***************************************************************************)
\* the k-th file of the input directory: 1.txt, 1.md, 2.txt, 2.md, ...
File(k) == [base |-> (k + 1) \div 2, ext |-> IF k % 2 = 1 THEN "txt" ELSE "md"]
OldFile == [base |-> 0, ext |-> "old"]      \* content archived by an earlier run

Patterns == {"*.txt", "*"}
Matches(pat, f) == pat = "*" \/ f.ext = "txt"
MatchesPattern(f) == Matches(pattern, f)

\* glob.glob(os.path.join(input_dir, pattern))
Glob == SelectSeq(listing, MatchesPattern)

\* strftime("%Y%m%d") and strftime("%H%M%S") of an instant
Date(t)   == t \div DayLen
HHMMSS(t) == t % DayLen

NoName == [set |-> FALSE, company |-> <<>>, position |-> <<>>, date |-> 0]
\* f"{company}-{position}-{date}.txt"
NewFilename(c, p, d) == [set |-> TRUE, company |-> c, position |-> p, date |-> d]

\* os.path.join(bin_dir, new_filename)
DestPath(name) ==
    [company |-> name.company, position |-> name.position, date |-> name.date,
     stamp |-> <<>>]
\* os.path.join(bin_dir, f"{base}_{timestamp}{ext}")
StampedPath(name, t) ==
    [company |-> name.company, position |-> name.position, date |-> name.date,
     stamp |-> <<HHMMSS(t)>>]

\* a mapping extended or overwritten at one key
Put(f, key, val) == [x \in DOMAIN f \cup {key} |-> IF x = key THEN val ELSE f[x]]
Empty == [x \in {} |-> 0]

Printed(tag, item, arg) == [tag |-> tag, item |-> item, arg |-> arg]

\* replies of the backend to the metadata request of a batch item
BatchReplies ==
    { FailReply("timeout"),
      TextReply(<<Doc(Obj(JStr(<<"A">>), JStr(<<"1">>)))>>),
      TextReply(<<Fence, JsonWord, Ws, Doc(Obj(JStr(<<"a">>), JStr(<<"1">>))), Ws, Fence>>),
      TextReply(<<Doc(Obj(JNum(5), JStr(<<"1">>)))>>),
      TextReply(<<Doc(Obj(JNull, Missing))>>) }

\* archive contents left by earlier runs
PriorName(stamp) == [company |-> <<"a">>, position |-> <<"1">>, date |-> 0, stamp |-> stamp]
PriorBins ==
    { Empty,
      [x \in {PriorName(<<>>)} |-> OldFile],
      [x \in {PriorName(<<>>), PriorName(<<0>>)} |-> OldFile] }

BatchInit ==
    /\ pc = "discover"
    /\ \E n \in 0..MaxFiles : listing = [k \in 1..n |-> File(k)]
    /\ pattern \in Patterns
    /\ move_to_bin \in BOOLEAN
    /\ job_files = <<>>
    /\ i = 1
    /\ new_filename = NoName
    /\ generated_files = <<>>
    /\ files_to_move = <<>>
    /\ j = 1
    /\ input = {listing[k] : k \in 1..Len(listing)}
    /\ output = Empty
    /\ bin \in PriorBins
    /\ now = 0
    /\ log = <<>>
    /\ raised_at = <<>>
    /\ returned = <<>>

\* where the loop goes after item i: the next item, or past the loop
AfterLoopWith(queue) == IF move_to_bin /\ queue # <<>> THEN "archive" ELSE "report"
\* mutant: the archival loop runs as soon as one source is queued
ArchiveAtOnce(queue) ==
    IF move_to_bin /\ queue # <<>> THEN "archive"
    ELSE IF i < Len(job_files) THEN "read" ELSE "report"

NextItemPc(queue) == IF i < Len(job_files) THEN "read" ELSE AfterLoopWith(queue)

\* lines 330-342: discovery
Discover ==
    /\ pc = "discover"
    /\ job_files' = Glob
    /\ IF Glob = <<>>
       THEN /\ log' = Append(log, Printed("NoFiles", 0, pattern))
            /\ returned' = <<>>
            /\ pc' = "returned"
       ELSE /\ log' = Append(log, Printed("Found", 0, Len(Glob)))
            /\ returned' = returned
            /\ pc' = "read"
    /\ UNCHANGED <<listing, pattern, move_to_bin, i, new_filename, generated_files,
                   files_to_move, j, input, output, bin, now, raised_at>>

\* mutant: the exception leaves batch_process
CatchAndRaise(stage, printed) ==
    /\ log' = printed
    /\ raised_at' = Append(raised_at, stage)
    /\ pc' = "raised"
    /\ UNCHANGED <<new_filename, i, generated_files, files_to_move, output>>

\* mutant: except: pass
CatchSilently(stage, printed) ==
    /\ log' = printed
    /\ raised_at' = Append(raised_at, stage)
    /\ new_filename' = NoName
    /\ pc' = NextItemPc(files_to_move)
    /\ i' = i + 1
    /\ UNCHANGED <<generated_files, files_to_move, output>>

\* mutant: the source is queued for archival whether or not the item succeeded
CatchAndQueue(stage, printed) ==
    LET queue == IF move_to_bin /\ new_filename.set
                 THEN Append(files_to_move, [source |-> job_files[i], name |-> new_filename])
                 ELSE files_to_move
    IN  /\ log' = Append(printed, Printed("Failed", i, stage))
        /\ raised_at' = Append(raised_at, stage)
        /\ new_filename' = NoName
        /\ files_to_move' = queue
        /\ pc' = IF i < Len(job_files) THEN "read"
                 ELSE IF move_to_bin /\ queue # <<>> THEN "archive" ELSE "report"
        /\ i' = i + 1
        /\ UNCHANGED <<generated_files, output>>

\* lines 375-376: the item's except clause, then the next iteration; nothing
\* is appended to generated_files or files_to_move, nothing is written
Catch(stage, printed) ==
    /\ log' = Append(printed, Printed("Failed", i, stage))
    /\ raised_at' = Append(raised_at, stage)
    /\ new_filename' = NoName
    /\ pc' = NextItemPc(files_to_move)
    /\ i' = i + 1
    /\ UNCHANGED <<generated_files, files_to_move, output>>

\* lines 344-349: the loop header and the read of the posting
ReadItem ==
    /\ pc = "read"
    /\ i <= Len(job_files)
    /\ LET header == Append(log, Printed("Item", i, Len(job_files)))
       IN  \E ok \in BOOLEAN :
             IF ok /\ job_files[i] \in input
             THEN /\ log' = header
                  /\ pc' = IF move_to_bin THEN "meta" ELSE "generate"
                  /\ new_filename' = NoName
                  /\ UNCHANGED <<i, raised_at, generated_files, files_to_move, output>>
             ELSE Catch("read", header)
    /\ UNCHANGED <<listing, pattern, move_to_bin, job_files, j, input, bin, now,
                   returned>>

\* lines 351-364: the archive name of the item
ExtractMeta ==
    /\ pc = "meta"
    /\ \E reply \in BatchReplies, t \in now..MaxClock :
         LET job_info == ExtractJobInfo(reply)
             company  == SanitizeFilenameComponent(job_info.company)
             position == SanitizeFilenameComponent(job_info.position)
             started  == Append(log, Printed("Extracting", i, job_files[i]))
         IN  IF company.raised \/ position.raised
             THEN /\ Catch("meta", started)
                  /\ now' = now
             ELSE LET name == NewFilename(company.value, position.value, Date(t))
                  IN  /\ new_filename' = name
                      /\ now' = t
                      /\ log' = Append(started, Printed("Renamed", i, name))
                      /\ pc' = "generate"
                      /\ UNCHANGED <<i, raised_at, generated_files, files_to_move, output>>
    /\ UNCHANGED <<listing, pattern, move_to_bin, job_files, j, input, bin, returned>>

\* lines 297-303: process_job_file reads the posting again and generates
Generate ==
    /\ pc = "generate"
    /\ \E fault \in {"none", "read", "generate"} :
         IF fault = "read" \/ job_files[i] \notin input
         THEN Catch("read", log)
         ELSE LET announced == Append(log, Printed("Generating", i, job_files[i]))
              IN  IF fault = "generate"
                  THEN Catch("generate", announced)
                  ELSE /\ log' = announced
                       /\ pc' = "write"
                       /\ UNCHANGED <<i, raised_at, new_filename, generated_files,
                                      files_to_move, output>>
    /\ UNCHANGED <<listing, pattern, move_to_bin, job_files, j, input, bin, now,
                   returned>>

\* lines 305-310: cover_letter_<base name>.txt under output/
OutputPath(f) == f.base

\* lines 370-372: queue the source for archival
Queue(queue, source, name) ==
    IF move_to_bin /\ name.set
    THEN Append(queue, [source |-> source, name |-> name])
    ELSE queue

\* lines 312-315 and 368-374: save the letter, record the success
Write ==
    /\ pc = "write"
    /\ \E ok \in BOOLEAN :
         IF ~ok
         THEN Catch("write", log)
         ELSE LET path  == OutputPath(job_files[i])
                  queue == Queue(files_to_move, job_files[i], new_filename)
              IN  /\ output' = Put(output, path, job_files[i])
                  /\ generated_files' = Append(generated_files, path)
                  /\ files_to_move' = queue
                  /\ log' = log \o <<Printed("Saved", i, path), Printed("Success", i, path)>>
                  /\ raised_at' = Append(raised_at, "none")
                  /\ new_filename' = NoName
                  /\ pc' = NextItemPc(queue)
                  /\ i' = i + 1
    /\ UNCHANGED <<listing, pattern, move_to_bin, job_files, j, input, bin, now,
                   returned>>

\* lines 379-384: the archive directory is made (os.makedirs is taken to
\* succeed: the failures modelled are those of the items and of the moves)
StartArchive ==
    /\ pc = "archive"
    /\ log' = Append(log, Printed("Moving", 0, Len(files_to_move)))
    /\ j' = 1
    /\ pc' = "move"
    /\ UNCHANGED <<listing, pattern, move_to_bin, job_files, i, new_filename,
                   generated_files, files_to_move, input, output, bin, now,
                   raised_at, returned>>

\* lines 387-393: the destination of a move decided at instant t
ChooseDest(name, t) ==
    IF DestPath(name) \in DOMAIN bin THEN StampedPath(name, t) ELSE DestPath(name)

\* lines 385-400: one iteration of the archival loop
MoveFile ==
    /\ pc = "move"
    /\ j <= Len(files_to_move)
    /\ \E t \in now..MaxClock, ok \in BOOLEAN :
         LET source == files_to_move[j].source
             dest   == ChooseDest(files_to_move[j].name, t)
         IN  /\ now' = IF DestPath(files_to_move[j].name) \in DOMAIN bin THEN t ELSE now
             /\ IF ok /\ source \in input
                THEN /\ bin' = Put(bin, dest, source)
                     /\ input' = input \ {source}
                     /\ log' = Append(log, Printed("Moved", j, [source |-> source, dest |-> dest]))
                ELSE /\ log' = Append(log, Printed("MoveFailed", j, source))
                     /\ UNCHANGED <<bin, input>>
    /\ j' = j + 1
    /\ pc' = IF j < Len(files_to_move) THEN "move" ELSE "report"
    /\ UNCHANGED <<listing, pattern, move_to_bin, job_files, i, new_filename,
                   generated_files, files_to_move, output, raised_at, returned>>

\* lines 402-408: the aggregate report and the return
Report ==
    /\ pc = "report"
    /\ LET summary == Printed("Complete", 0,
                         [successful |-> Len(generated_files), total |-> Len(job_files)])
       IN  log' = IF move_to_bin
                  THEN log \o <<summary, Printed("Archived", 0, Len(files_to_move))>>
                  ELSE Append(log, summary)
    /\ returned' = generated_files
    /\ pc' = "returned"
    /\ UNCHANGED <<listing, pattern, move_to_bin, job_files, i, new_filename,
                   generated_files, files_to_move, j, input, output, bin, now,
                   raised_at>>

(***************************************************************************)
(* JobScraper.scrape_url                                                   *)
(*                                                                         *)
(* A text is the list of its lines (split at '\n'), never empty: the empty *)
(* string is one empty line.  A page is the text of its head and the list  *)
(* of its elements in document order, inside <body> or not; the elements   *)
(* are siblings, each with a tag, classes, an id, a role and its own text. *)
(***************************************************************************)
EmptyText == << <<>> >>
Line(c) == <<c>>

\* string concatenation of two texts
ConcatText(a, b) ==
    SubSeq(a, 1, Len(a) - 1) \o <<a[Len(a)] \o b[1]>> \o Tail(b)

RECURSIVE JoinTexts(_)
JoinTexts(texts) ==
    IF texts = <<>> THEN EmptyText ELSE ConcatText(texts[1], JoinTexts(Tail(texts)))

\* line.strip()
RECURSIVE LStripLine(_)
LStripLine(l) == IF l # <<>> /\ l[1] = " " THEN LStripLine(Tail(l)) ELSE l
RECURSIVE RStripLine(_)
RStripLine(l) ==
    IF l # <<>> /\ l[Len(l)] = " " THEN RStripLine(SubSeq(l, 1, Len(l) - 1)) ELSE l
StripLine(l) == RStripLine(LStripLine(l))

\* '\n'.join(lines)
JoinLines(lines) == IF lines = <<>> THEN EmptyText ELSE lines

\* JobScraper._clean_text
IsNotBlank(l) == StripLine(l) # <<>>
StripEach(lines) == [x \in 1..Len(lines) |-> StripLine(lines[x])]
CleanText(text) == JoinLines(StripEach(SelectSeq(text, IsNotBlank)))

Element(tag, classes, id, role, text) ==
    [tag |-> tag, classes |-> classes, id |-> id, role |-> role, text |-> text]

\* soup(["script", "style", "nav", "header", "footer"]) ... decompose()
StrippedTags == {"script", "style", "nav", "header", "footer"}
IsContent(e) == e.tag \notin StrippedTags
Decompose(elems) == SelectSeq(elems, IsContent)

\* the selectors list
Selector(attr, value) == [attr |-> attr, value |-> value]
selectors ==
    << Selector("class", "job-description"),
       Selector("class", "job-details"),
       Selector("class", "posting-description"),
       Selector("id",    "job-description"),
       Selector("role",  "main"),
       Selector("class", "description"),
       Selector("class", "content") >>

SelectorMatches(sel, e) ==
    CASE sel.attr = "class" -> sel.value \in e.classes
      [] sel.attr = "id"    -> sel.value = e.id
      [] sel.attr = "role"  -> sel.value = e.role

\* soup.find(**selector): the position of the first element, in document
\* order, that the selector matches, or 0
Find(elems, sel) ==
    IF \E x \in 1..Len(elems) : SelectorMatches(sel, elems[x])
    THEN CHOOSE x \in 1..Len(elems) :
             /\ SelectorMatches(sel, elems[x])
             /\ \A y \in 1..(x - 1) : ~SelectorMatches(sel, elems[y])
    ELSE 0

\* soup.find(tag): the position of the first element with the tag, or 0
FindTag(elems, tag) ==
    IF \E x \in 1..Len(elems) : elems[x].tag = tag
    THEN CHOOSE x \in 1..Len(elems) :
             /\ elems[x].tag = tag
             /\ \A y \in 1..(x - 1) : elems[y].tag # tag
    ELSE 0

\* content = None before the loop
None == <<>>

\* the loop over selectors from the k-th on: the text of the first selector's
\* match, or None
RECURSIVE SelectFrom(_, _)
SelectFrom(elems, k) ==
    IF k > Len(selectors) THEN None
    ELSE IF Find(elems, selectors[k]) # 0
         THEN elems[Find(elems, selectors[k])].text
         ELSE SelectFrom(elems, k + 1)

\* soup.body.get_text() if soup.body else soup.get_text()
TextsOfElems(elems) == [x \in 1..Len(elems) |-> elems[x].text]
BodyOrDocumentText(doc, elems) ==
    IF doc.has_body
    THEN JoinTexts(TextsOfElems(elems))
    ELSE ConcatText(doc.head, JoinTexts(TextsOfElems(elems)))

\* soup.find('main') or soup.find('article'), then the body, then the document
Fallback(doc, elems) ==
    IF FindTag(elems, "main") # 0 THEN elems[FindTag(elems, "main")].text
    ELSE IF FindTag(elems, "article") # 0 THEN elems[FindTag(elems, "article")].text
    ELSE BodyOrDocumentText(doc, elems)

\* if not content
NotContent(content) == content = None \/ content = EmptyText

\* lines 59-94: the text extracted from the parsed page
ExtractContent(doc) ==
    LET elems   == Decompose(doc.elems)
        content == SelectFrom(elems, 1)
    IN  IF NotContent(content) THEN Fallback(doc, elems) ELSE content

\* f"Source URL: {url}\n\n{content}"
UrlLine == <<"u">>
WithSource(content) == ConcatText(<<UrlLine, <<>>, <<>>>>, content)

\* the elements pages are made of
Catalog ==
    { Element("div",     {"job-description"},        "", "",     <<Line("a")>>),
      Element("div",     {"job-description"},        "", "",     EmptyText),
      Element("div",     {"job-description"},        "", "",     <<<<" ">>, <<>>>>),
      Element("nav",     {"job-description"},        "", "",     <<Line("n")>>),
      Element("div",     {},                         "", "main", <<Line("r")>>),
      Element("main",    {},                         "", "",     <<<<" ", "m">>, <<>>, <<"m", " ">>>>),
      Element("article", {},                         "", "",     <<Line("t")>>),
      Element("div",     {"job-details", "box"},     "", "",     <<Line("d")>>),
      Element("section", {"posting-description"},    "", "",     <<Line("p")>>),
      Element("div",     {},    "job-description",       "",     <<Line("i")>>),
      Element("div",     {"description", "content"}, "", "",     <<Line("e")>>),
      Element("div",     {"content"},                "", "",     <<Line("c")>>),
      Element("div",     {},                         "", "",     <<Line("x"), Line("y")>>) }

RECURSIVE ElemSeqs(_)
ElemSeqs(n) ==
    IF n = 0 THEN {<<>>}
    ELSE LET shorter == ElemSeqs(n - 1)
         IN  shorter \cup {Append(s, e) : s \in {q \in shorter : Len(q) = n - 1}, e \in Catalog}

Pages ==
    { [has_body |-> b, head |-> h, elems |-> es] :
        b \in BOOLEAN, h \in {EmptyText, <<Line("h")>>}, es \in ElemSeqs(MaxElems) }

NoResult == [success |-> FALSE, content |-> None]

ScrapeInit ==
    /\ c_pc = "fetch"
    /\ page \in Pages
    /\ result = NoResult

\* JobScraper.scrape_url: the request fails or the page is extracted
ScrapeUrl ==
    /\ c_pc = "fetch"
    /\ \E ok \in BOOLEAN :
         result' = IF ok
                   THEN [success |-> TRUE,
                         content |-> WithSource(CleanText(ExtractContent(page)))]
                   ELSE NoResult
    /\ c_pc' = "done"
    /\ UNCHANGED page

(***************************************************************************)
(* _extract_cv_text                                                        *)
(*                                                                         *)
(* The CV is a text: the list of its lines (cv_text.split('\n')).          *)
(***************************************************************************)
\* str.startswith
StartsWith(s, prefix) ==
    Len(s) >= Len(prefix) /\ SubSeq(s, 1, Len(prefix)) = prefix

usepackage  == <<"\\", "u", "s", "e", "p", "a", "c", "k", "a", "g", "e">>
define      == <<"\\", "d", "e", "f", "i", "n", "e">>
setmainfont == <<"\\", "s", "e", "t", "m", "a", "i", "n", "f", "o", "n", "t">>
geometry    == <<"\\", "g", "e", "o", "m", "e", "t", "r", "y">>
titleformat == <<"\\", "t", "i", "t", "l", "e", "f", "o", "r", "m", "a", "t">>
newcommand  == <<"\\", "n", "e", "w", "c", "o", "m", "m", "a", "n", "d">>

\* lines 111-116: the line is a package import or a setup directive
IsSetup(line) ==
    \/ StartsWith(StripLine(line), usepackage)
    \/ StartsWith(StripLine(line), define)
    \/ StartsWith(StripLine(line), setmainfont)
    \/ StartsWith(StripLine(line), geometry)
    \/ StartsWith(StripLine(line), titleformat)
    \/ StartsWith(StripLine(line), newcommand)

\* line 119: line.strip() and not line.strip().startswith('%')
HasContent(line) ==
    StripLine(line) # <<>> /\ ~StartsWith(StripLine(line), <<"%">>)

\* mutant: the trimmed line is kept
KeptTrimmed(line) == StripLine(line)

\* line 120: clean_lines.append(line)
Kept(line) == line

\* lines 107-120: the loop over the lines
RECURSIVE CleanLines(_)
CleanLines(lines) ==
    IF lines = <<>> THEN <<>>
    ELSE IF IsSetup(Head(lines)) THEN CleanLines(Tail(lines))
    ELSE IF HasContent(Head(lines)) THEN <<Kept(Head(lines))>> \o CleanLines(Tail(lines))
    ELSE CleanLines(Tail(lines))

\* CoverLetterGenerator._extract_cv_text
ExtractCvText(cv) == JoinLines(CleanLines(cv))

\* the lines CVs are made of
CvLines ==
    { <<>>,
      <<" ">>,
      <<"x">>,
      <<" ", "x", " ">>,
      <<"x", " ", "%", "c">>,
      <<"%", "c">>,
      <<" ", "%">>,
      usepackage \o <<"{", "a", "}">>,
      <<" ", " ">> \o usepackage,
      <<"x", " ">> \o usepackage,
      define \o <<"c", "o", "l", "o", "r">>,
      <<"\\", "d", "e", "f">>,
      setmainfont,
      geometry \o <<" ">>,
      <<" ">> \o titleformat,
      newcommand \o <<"{", "x", "}">>,
      <<"\\", "n", "e", "w", "p", "a", "g", "e">> }

RECURSIVE CvTexts(_)
CvTexts(n) ==
    IF n <= 1 THEN {<<l>> : l \in CvLines}
    ELSE LET shorter == CvTexts(n - 1)
         IN  shorter \cup {Append(s, l) : s \in {q \in shorter : Len(q) = n - 1}, l \in CvLines}

CvInit ==
    /\ v_pc = "in"
    /\ cv_content \in CvTexts(MaxCvLines)
    /\ v_once = EmptyText
    /\ v_twice = EmptyText

CleanCvOnce ==
    /\ v_pc = "in"
    /\ v_once' = ExtractCvText(cv_content)
    /\ v_pc' = "once"
    /\ UNCHANGED <<cv_content, v_twice>>

CleanCvTwice ==
    /\ v_pc = "once"
    /\ v_twice' = ExtractCvText(v_once)
    /\ v_pc' = "twice"
    /\ UNCHANGED <<cv_content, v_once>>

(***************************************************************************)
(* main and CoverLetterGenerator.__init__: the endpoint and the model      *)
(*                                                                         *)
(* An optional string is a record: set is FALSE for None, an unset         *)
(* environment variable or an option the command line does not give.       *)
(***************************************************************************)
Some(s) == [set |-> TRUE, v |-> s]
Absent  == [set |-> FALSE, v |-> ""]

DefaultHost  == "http://localhost:11434"
DefaultModel == "llama3.2:latest"

\* os.getenv(name, default)
GetEnv(variable, default) == IF variable.set THEN variable.v ELSE default

\* x or y, on optional strings: None and '' are falsy
Or(x, y) == IF x.set /\ x.v # "" THEN x ELSE y

\* args.ollama_host: argparse fills in the default
ArgsOllamaHost == IF cli.ollama_host.set THEN cli.ollama_host.v ELSE DefaultHost
\* model=args.model or "llama3.2:latest"
ArgsModelOrDefault == Or(cli.model, Some(DefaultModel)).v

CfgInit ==
    /\ g_pc = "start"
    /\ environ \in [OLLAMA_HOST : {Absent, Some("http://env:1"), Some(DefaultHost)},
                    OLLAMA_MODEL : {Absent, Some(""), Some("envmodel")}]
    /\ cli \in [ollama_host : {Absent, Some("http://cli:2"), Some(DefaultHost)},
                model : {Absent, Some("climodel"), Some("envmodel")},
                interactive : BOOLEAN]
    /\ ollama_host = ""
    /\ default_model = ""
    /\ selected_model = Absent
    /\ used_model = ""

\* lines 469-478 and 13-30: the generator is constructed, or the connection
\* test raises and main returns
Construct ==
    /\ g_pc = "start"
    /\ ollama_host' = GetEnv(environ.OLLAMA_HOST, ArgsOllamaHost)
    /\ default_model' = GetEnv(environ.OLLAMA_MODEL, ArgsModelOrDefault)
    /\ \E connected \in BOOLEAN : g_pc' = IF connected THEN "constructed" ELSE "failed"
    /\ UNCHANGED <<environ, cli, selected_model, used_model>>

\* lines 55-89: the default model, or one of the models the backend lists
InteractiveChoices == {Some(default_model), Some("listedmodel")}

\* lines 480-484: the model is selected
SelectModel ==
    /\ g_pc = "constructed"
    /\ IF cli.interactive
          \/ (~(cli.model.set /\ cli.model.v # "")
              /\ ~(environ.OLLAMA_MODEL.set /\ environ.OLLAMA_MODEL.v # ""))
       THEN selected_model' \in InteractiveChoices
       ELSE selected_model' = cli.model
    /\ g_pc' = "selected"
    /\ UNCHANGED <<environ, cli, ollama_host, default_model, used_model>>

\* model = model or self.default_model, in the request to self.ollama_host
RequestModel ==
    /\ g_pc = "selected"
    /\ used_model' = Or(selected_model, Some(default_model)).v
    /\ g_pc' = "done"
    /\ UNCHANGED <<environ, cli, ollama_host, default_model, selected_model>>

(***************************************************************************)
(* Specifications                                                          *)
(***************************************************************************)
SanIdle ==
    /\ s_pc = "idle" /\ s_text = <<>> /\ s_once = Raised /\ s_twice = Raised
MetaIdle ==
    /\ m_pc = "idle" /\ m_reply = FailReply("timeout") /\ m_info = UnknownInfo
BatchIdle ==
    /\ pc = "idle" /\ listing = <<>> /\ pattern = "*" /\ move_to_bin = FALSE
    /\ job_files = <<>> /\ i = 1 /\ new_filename = NoName /\ generated_files = <<>>
    /\ files_to_move = <<>> /\ j = 1 /\ input = {} /\ output = Empty /\ bin = Empty
    /\ now = 0 /\ log = <<>> /\ raised_at = <<>> /\ returned = <<>>

ScrapeIdle ==
    /\ c_pc = "idle" /\ page = [has_body |-> TRUE, head |-> EmptyText, elems |-> <<>>]
    /\ result = NoResult

CvIdle ==
    /\ v_pc = "idle" /\ cv_content = EmptyText /\ v_once = EmptyText
    /\ v_twice = EmptyText

CfgIdle ==
    /\ g_pc = "idle"
    /\ environ = [OLLAMA_HOST |-> Absent, OLLAMA_MODEL |-> Absent]
    /\ cli = [ollama_host |-> Absent, model |-> Absent, interactive |-> FALSE]
    /\ ollama_host = "" /\ default_model = "" /\ selected_model = Absent
    /\ used_model = ""

\* batch_process
Init == BatchInit /\ SanIdle /\ MetaIdle /\ ScrapeIdle /\ CvIdle /\ CfgIdle
Next ==
    \/ Discover     /\ UNCHANGED <<sanVars, metaVars, scrapeVars, cvVars, cfgVars>>
    \/ ReadItem     /\ UNCHANGED <<sanVars, metaVars, scrapeVars, cvVars, cfgVars>>
    \/ ExtractMeta  /\ UNCHANGED <<sanVars, metaVars, scrapeVars, cvVars, cfgVars>>
    \/ Generate     /\ UNCHANGED <<sanVars, metaVars, scrapeVars, cvVars, cfgVars>>
    \/ Write        /\ UNCHANGED <<sanVars, metaVars, scrapeVars, cvVars, cfgVars>>
    \/ StartArchive /\ UNCHANGED <<sanVars, metaVars, scrapeVars, cvVars, cfgVars>>
    \/ MoveFile     /\ UNCHANGED <<sanVars, metaVars, scrapeVars, cvVars, cfgVars>>
    \/ Report       /\ UNCHANGED <<sanVars, metaVars, scrapeVars, cvVars, cfgVars>>
Spec == Init /\ [][Next]_vars

\* _sanitize_filename_component on strings
InitSan == SanInit /\ MetaIdle /\ BatchIdle /\ ScrapeIdle /\ CvIdle /\ CfgIdle
NextSan ==
    \/ SanitizeOnce  /\ UNCHANGED <<metaVars, batchVars, scrapeVars, cvVars, cfgVars>>
    \/ SanitizeTwice /\ UNCHANGED <<metaVars, batchVars, scrapeVars, cvVars, cfgVars>>
SpecSan == InitSan /\ [][NextSan]_vars

\* _extract_job_info on backend replies
InitMeta == MetaInit /\ SanIdle /\ BatchIdle /\ ScrapeIdle /\ CvIdle /\ CfgIdle
NextMeta == ExtractInfo /\ UNCHANGED <<sanVars, batchVars, scrapeVars, cvVars, cfgVars>>
SpecMeta == InitMeta /\ [][NextMeta]_vars

\* scrape_url on pages
InitScrape == ScrapeInit /\ SanIdle /\ MetaIdle /\ BatchIdle /\ CvIdle /\ CfgIdle
NextScrape == ScrapeUrl /\ UNCHANGED <<sanVars, metaVars, batchVars, cvVars, cfgVars>>
SpecScrape == InitScrape /\ [][NextScrape]_vars

\* _extract_cv_text on CVs
InitCv == CvInit /\ SanIdle /\ MetaIdle /\ BatchIdle /\ ScrapeIdle /\ CfgIdle
NextCv ==
    \/ CleanCvOnce  /\ UNCHANGED <<sanVars, metaVars, batchVars, scrapeVars, cfgVars>>
    \/ CleanCvTwice /\ UNCHANGED <<sanVars, metaVars, batchVars, scrapeVars, cfgVars>>
SpecCv == InitCv /\ [][NextCv]_vars

\* main's configuration of the generator
InitCfg == CfgInit /\ SanIdle /\ MetaIdle /\ BatchIdle /\ ScrapeIdle /\ CvIdle
NextCfg ==
    \/ Construct    /\ UNCHANGED <<sanVars, metaVars, batchVars, scrapeVars, cvVars>>
    \/ SelectModel  /\ UNCHANGED <<sanVars, metaVars, batchVars, scrapeVars, cvVars>>
    \/ RequestModel /\ UNCHANGED <<sanVars, metaVars, batchVars, scrapeVars, cvVars>>
SpecCfg == InitCfg /\ [][NextCfg]_vars

\* batch_process under the scheduling of a sequential program: it keeps running
SpecFair == Spec /\ WF_vars(Next)

(***************************************************************************)
(* Properties                                                              *)
(***************************************************************************)
N == Len(job_files)
Visited(k) == \E x \in 1..Len(log) : log[x].tag = "Item" /\ log[x].item = k
Failures == {k \in 1..Len(raised_at) : raised_at[k] # "none"}
FailedPrints(k) == {x \in 1..Len(log) : log[x].tag = "Failed" /\ log[x].item = k}
MovedPrints == {x \in 1..Len(log) : log[x].tag = "Moved"}
QueuedSources == {files_to_move[x].source : x \in 1..Len(files_to_move)}
Archived == {bin[n] : n \in DOMAIN bin}
PastLoop == pc \in {"archive", "move", "report", "returned"} /\ job_files # <<>>

C2_AggregateCounts ==
    pc = "returned" /\ job_files # <<>> =>
        LET K == Cardinality(Failures)
        IN  /\ Len(raised_at) = N
            /\ Len(returned) = N - K
            /\ \E x \in 1..Len(log) :
                   /\ log[x].tag = "Complete"
                   /\ log[x].arg = [successful |-> N - K, total |-> N]
            /\ \A k \in 1..N :
                   IF k \in Failures
                   THEN /\ Cardinality(FailedPrints(k)) = 1
                        /\ \A x \in FailedPrints(k) : log[x].arg = raised_at[k]
                   ELSE FailedPrints(k) = {}

\* C2 witness: three items, two of them failed for different reasons
C2_Witness ==
    /\ pc = "returned"
    /\ N = 3
    /\ Cardinality(Failures) = 2
    /\ \E a, b \in Failures : raised_at[a] # raised_at[b]

\* C3: with archival enabled, an item that failed is never queued for a move
\* and never moved: its source file stays at its input path.
C3_FailedNeverArchived ==
    move_to_bin =>
        \A k \in Failures :
            /\ job_files[k] \notin QueuedSources
            /\ job_files[k] \notin Archived
            /\ job_files[k] \in input

\* C3 witness: a batch with a failed item has moved another item's source
C3_Witness ==
    /\ move_to_bin
    /\ pc = "returned"
    /\ Failures # {}
    /\ MovedPrints # {}

\* C4: the archive and the input directory change only after every item of
\* the batch has ended: no move happens while an item is still to be processed.
C4_MovesAfterPass ==
    [][(bin' # bin \/ input' # input) => Len(raised_at) = N /\ PastLoop]_vars

\* C4 witness: a file has been moved in a batch of several items
C4_Witness ==
    /\ N >= 2
    /\ MovedPrints # {}
    /\ Failures # {}

\* C5: a move never overwrites a file of the archive: every file that is in
\* the archive before a step is there, unchanged, after it.
C5_NoOverwrite ==
    [][\A n \in DOMAIN bin : n \in DOMAIN bin' /\ bin'[n] = bin[n]]_vars

\* C6: with archival enabled, no item fails at the metadata stage: whatever
\* the backend answers, the item goes on to generation and ends as it would
\* with archival disabled.
C6_MetadataNeverAborts ==
    \A k \in 1..Len(raised_at) : raised_at[k] # "meta"

\* whether the reply's text parses as a JSON object
ParsedDoc(reply) == JsonLoads(Unfenced(reply.text)).doc
ParsesAsObject(reply) ==
    /\ reply.kind = "text"
    /\ JsonLoads(Unfenced(reply.text)).ok
    /\ ParsedDoc(reply).k = "obj"

\* C7 as stated: a reply that does not parse as an object, or whose object
\* lacks the company key or the position key, yields Unknown/Unknown.
C7_UnknownOnAnyMissingKey ==
    /\ m_pc = "out"
    /\ (\/ ~ParsesAsObject(m_reply)
        \/ ParsedDoc(m_reply).company = Missing
        \/ ParsedDoc(m_reply).position = Missing)
    => m_info = UnknownInfo

\* C7 amended: a reply that does not parse as an object yields Unknown/Unknown;
\* for an object, each field whose key is absent is "Unknown" and each field
\* whose key is present is the value under that key.
C7_UnknownPerField ==
    m_pc = "out" =>
        IF ~ParsesAsObject(m_reply)
        THEN m_info = UnknownInfo
        ELSE LET doc == ParsedDoc(m_reply)
             IN  /\ m_info.company =
                       (IF doc.company = Missing THEN JStr(Unknown) ELSE doc.company)
                 /\ m_info.position =
                       (IF doc.position = Missing THEN JStr(Unknown) ELSE doc.position)

\* C7 witness: an object with a position and no company has been extracted
C7_Witness ==
    /\ m_pc = "out"
    /\ ParsesAsObject(m_reply)
    /\ ParsedDoc(m_reply).company = Missing
    /\ ParsedDoc(m_reply).position = JStr(<<"1">>)
    /\ m_info.position = JStr(<<"1">>)

\* C8: sanitizing the result of the sanitizer returns that result.
C8_Idempotent ==
    s_pc = "twice" => s_twice = s_once

\* C8 witness: a string that the sanitizer changes has been sanitized twice
C8_Witness ==
    /\ s_pc = "twice"
    /\ s_text = <<"A", " ", "!", "-">>
    /\ s_once = Returned(<<"a">>)

HyphenOnly(s) == s # <<>> /\ \A x \in 1..Len(s) : s[x] = "-"
NoAlnum(s) == \A x \in 1..Len(s) : ~isalnum(s[x])

\* C9 as stated: the result is never empty nor hyphen-only, and an argument
\* that is empty, is "Unknown" or has no alphanumeric character gives "unknown".
C9_LowercaseUnknown ==
    s_pc # "in" /\ s_pc # "idle" =>
        /\ ~s_once.raised
        /\ s_once.value # <<>>
        /\ ~HyphenOnly(s_once.value)
        /\ ((s_text = <<>> \/ s_text = Unknown \/ NoAlnum(s_text)) => s_once.value = unknown)

\* C9 amended: the result is never empty nor hyphen-only, and an argument
\* that is empty, is "Unknown" or has no alphanumeric character gives "Unknown".
C9_CapitalUnknown ==
    s_pc # "in" /\ s_pc # "idle" =>
        /\ ~s_once.raised
        /\ s_once.value # <<>>
        /\ ~HyphenOnly(s_once.value)
        /\ ((s_text = <<>> \/ s_text = Unknown \/ NoAlnum(s_text)) => s_once.value = Unknown)

\* C9 witness: a string of hyphens, spaces and punctuation has been sanitized
C9_Witness ==
    /\ s_pc = "once"
    /\ s_text = <<"-", " ", "!">>
    /\ s_once = Returned(Unknown)

\* the first element left after the removal of non-content tags that has the
\* class, or 0
ClassMatch(doc) == Find(Decompose(doc.elems), Selector("class", "job-description"))
RoleMatch(doc)  == Find(Decompose(doc.elems), Selector("role", "main"))

\* C10: when the page holds an element of class job-description and an
\* element of role main, the extracted text is the (cleaned, source-prefixed)
\* text of the class-based element.
C10_ClassBeatsRole ==
    /\ c_pc = "done"
    /\ result.success
    /\ ClassMatch(page) # 0
    /\ RoleMatch(page) # 0
    => result.content =
           WithSource(CleanText(Decompose(page.elems)[ClassMatch(page)].text))

\* whether some container selector matches an element left on the page
AnySelectorMatches(doc) ==
    \E k \in 1..Len(selectors) : Find(Decompose(doc.elems), selectors[k]) # 0

\* C11: when some container selector matches, the extracted text is the
\* matched element's text, empty or not, and no fallback layer is used; the
\* structural fallback (main, article, body, document) gives the text only
\* when no selector matches.
C11_FallbackOnlyWithoutMatch ==
    c_pc = "done" /\ result.success =>
        result.content =
            WithSource(CleanText(
                IF AnySelectorMatches(page)
                THEN SelectFrom(Decompose(page.elems), 1)
                ELSE Fallback(page, Decompose(page.elems))))

Moved == {f \in {listing[k] : k \in 1..Len(listing)} : f \notin input}
ArchivedPrints == {x \in 1..Len(log) : log[x].tag = "Archived"}

\* C13: when archival is requested, the count printed as archived is the
\* number of source files that were moved into the archive during the run.
C13_ArchivedCountIsMoved ==
    pc = "returned" /\ move_to_bin /\ job_files # <<>> =>
        /\ ArchivedPrints # {}
        /\ \A x \in ArchivedPrints :
               /\ log[x].arg = Cardinality(Moved)
               /\ log[x].arg = Cardinality(MovedPrints)

\* C15: when batch_process returns, the letter of every item that succeeded
\* is at that item's output path: no letter of the batch was overwritten by
\* the letter of another item.
C15_OneLetterPerItem ==
    pc = "returned" =>
        \A k \in 1..Len(raised_at) :
            raised_at[k] = "none" =>
                /\ OutputPath(job_files[k]) \in DOMAIN output
                /\ output[OutputPath(job_files[k])] = job_files[k]

\* a line with content: not blank, not a comment, not a markup directive
IsContentLine(line) ==
    LET trimmed == StripLine(line)
    IN  /\ trimmed # <<>>
        /\ trimmed[1] # "%"
        /\ \A prefix \in {usepackage, define, setmainfont, geometry, titleformat, newcommand} :
               ~StartsWith(trimmed, prefix)

\* C12: the cleaned CV is exactly the content lines of the CV, in their
\* order and unmodified, and cleaning the cleaned CV returns it unchanged.
C12_CleaningKeepsContent ==
    /\ v_pc \in {"once", "twice"} =>
           v_once = JoinLines(SelectSeq(cv_content, IsContentLine))
    /\ v_pc = "twice" => v_twice = v_once

\* C12 witness: a CV with a directive and an indented content line has been
\* cleaned twice
C12_Witness ==
    /\ v_pc = "twice"
    /\ cv_content = << <<" ", " ">> \o usepackage, <<" ", "x", " ">> >>
    /\ v_twice = << <<" ", "x", " ">> >>

\* C14: an endpoint or a model given explicitly on the command line (and so
\* to the constructor) is the one used; the environment variable's value is
\* used only when none is given.
C14_ExplicitBeatsEnvironment ==
    g_pc \in {"constructed", "selected", "done"} =>
        /\ cli.ollama_host.set => ollama_host = cli.ollama_host.v
        /\ ~cli.ollama_host.set /\ environ.OLLAMA_HOST.set =>
               ollama_host = environ.OLLAMA_HOST.v
        /\ cli.model.set => default_model = cli.model.v
        /\ ~cli.model.set /\ environ.OLLAMA_MODEL.set =>
               default_model = environ.OLLAMA_MODEL.v
        /\ g_pc = "done" /\ cli.model.set /\ ~cli.interactive =>
               used_model = cli.model.v

====
